---- MODULE Spec2Model ----
(***************************************************************************)
(* A model of toymosaic's factored-evaluation interaction script: the      *)
(* InteractionScript runner and its log, the FE scheduler (schedulerBody), *)
(* the recursive adjudication (FE.start / FE.adjudicate), the agent        *)
(* requesters and the replay requester.                                    *)
(*                                                                         *)
(* Three specifications share the definitions of the handlers:             *)
(*   SchedSpec   the scheduler driven by concurrent adjudication steps     *)
(*               (allocUser / UserWorking / UserWorkedOn) of any width;    *)
(*   Spec        one run of FE.start with its log and projection;          *)
(*   ReplaySpec  a run of FE.start followed by a second run whose          *)
(*               requester is makeReplayRequester on a prefix of the log.  *)
(***************************************************************************)
EXTENDS Integers, Sequences, FiniteSets, TLC

(* ------------------------------ bounds --------------------------------- *)

\* Largest limit handed to makeLimitedAgentRequester (the program passes
\* elements.length); Init draws the limit from 0..MaxLimit.
MaxLimit == 4

\* Number of adjudication steps SchedSpec runs, side by side or one after
\* another.
MaxClients == 4

\* Workspace paths the adjudication steps of SchedSpec ask for.  A path is
\* the sequence of its components: 'root' followed by one child index for
\* every '.subquestions[k]' suffix.
ClientWorkspaces == {<<"root">>, <<"root", 0>>}

\* Spec and ReplaySpec stop appending to a log that holds MaxLog entries.
MaxLog == 40

\* Spec and ReplaySpec: the tasks of one run, the root included; a judge
\* answers Questions only while its subquestions fit.
MaxTasks == 3

\* ReplaySpec: interactions the live requester answers in the second run.
MaxLive == 1

\* ReplaySpec replays prefixes of at most MaxPrefix entries (the program
\* replays script.log.slice(0, 13)).
MaxPrefix == 22

\* The subquestion lists a judge asks.
SubQChoices == {<<>>, <<"sub1">>, <<"sub1", "sub2">>}

\* The question FE.start is called with.
TopQuestion == "Q"

(* ----------------------------- encoding -------------------------------- *)

\* 1/0 in the weight computation.  The three weights -1/0, 1 and 1/0 are
\* modelled by -Infinity, 1 and Infinity, which keeps their order.
Infinity == 2

\* state.notifyAvailable === null
Null == [kind |-> "null"]

\* No user / no value yet.
None == -1

VARIABLES
    (* makeLimitedAgentRequester *)
    limit,            \* the limit argument
    userCount,        \* let userCount
    (* FE.schedulerState *)
    judges,           \* Array<User>, users are modelled by their id
    judgeWorkedOn,    \* {[userId]: Array<string>}; DOMAIN = ids defined
    judgeAvailable,   \* {[userId]: Boolean}; DOMAIN = ids defined
    notifyAvailable,  \* ((user) => void) | null
    (* InteractionScript, DataSourceWrapper *)
    log,              \* InteractionScript._log
    dswLog,           \* DataSourceWrapper._log: the projection writes
    (* FE.start and the FE.adjudicate calls in flight *)
    tasks,            \* the root task and the fan-out tasks, by creation
    (* makeReplayRequester *)
    replaying,        \* the run's requester is the replay requester
    supplied,         \* its log argument
    replayI,          \* let i
    reqCalls,         \* the replay requester's calls so far
    live,             \* interactions answered by the live requester
    (* SchedSpec: the callers of the scheduler *)
    startPc,          \* position of FE.start in its two expert allocations
    clients,          \* adjudication steps: [pc, ws, u]
    (* history kept for the properties *)
    blockOrder,       \* callers now blocked on the wait chain, oldest first
    lastEvent         \* what the last scheduler step decided

schedVars == <<limit, userCount, judges, judgeWorkedOn, judgeAvailable,
               notifyAvailable>>
runVars == <<log, dswLog, tasks>>
replayVars == <<replaying, supplied, replayI, reqCalls, live>>
harnessVars == <<startPc, clients>>
histVars == <<blockOrder, lastEvent>>
vars == <<schedVars, runVars, replayVars, harnessVars, histVars>>

(* ------------------------- small helpers ------------------------------- *)

\* Array.prototype.includes
Includes(s, x) == \E k \in DOMAIN s : s[k] = x

\* obj[key] = value on an object used as a map
SetKey(f, key, value) ==
    [x \in DOMAIN f \cup {key} |-> IF x = key THEN value ELSE f[x]]

(* ------------------- makeLimitedAgentRequester ------------------------- *)

\* The id the agent source hands out now, None when it rejects with
\* 'No more users'.
AgentRequester == IF userCount < limit THEN userCount ELSE None

\* userCount++ whatever the outcome.
AgentRequesterCountAlways == userCount + 1

\* userCount++ happens only on success.
AgentRequesterCount == IF userCount < limit THEN userCount + 1 ELSE userCount

(* --------------------- FE.schedulerBody: AllocUser --------------------- *)

\* !state.judgeAvailable[judge.id] is true for an id with no entry.
IsAvailable(id) == id \in DOMAIN judgeAvailable /\ judgeAvailable[id]

\* JudgeWeight without the preference for a judge that worked on wsId.
JudgeWeightNoHistory(judge, wsId) ==
    IF ~IsAvailable(judge) THEN -Infinity ELSE 1

\* The weight the map callback gives one judge.
JudgeWeight(judge, wsId) ==
    IF ~IsAvailable(judge) THEN -Infinity
    ELSE IF Includes(judgeWorkedOn[judge], wsId) THEN Infinity
    ELSE 1

\* workspaces.includes on an undefined history is a TypeError.
WeightThrows(judge) ==
    IsAvailable(judge) /\ judge \notin DOMAIN judgeWorkedOn

\* The comparator of the sort: largest weight first.
Cmp(a, b) == IF a[2] < b[2] THEN 1 ELSE IF a[2] > b[2] THEN -1 ELSE 0

\* A sort that puts an element before the earlier elements it compares
\* equal to: a sort that is not stable.
SortJudgesUnstable(s) ==
    LET Rank(k) == Cardinality({j \in 1..Len(s) :
                       \/ Cmp(s[j], s[k]) < 0
                       \/ Cmp(s[j], s[k]) = 0 /\ j > k})
    IN  [p \in 1..Len(s) |-> s[CHOOSE k \in 1..Len(s) : Rank(k) = p - 1]]

\* Array.prototype.sort with the comparator Cmp.  The sort is stable: an
\* element goes behind the elements that compare smaller and behind the
\* earlier elements that compare equal.
SortJudges(s) ==
    LET Rank(k) == Cardinality({j \in 1..Len(s) :
                       \/ Cmp(s[j], s[k]) < 0
                       \/ Cmp(s[j], s[k]) = 0 /\ j < k})
    IN  [p \in 1..Len(s) |-> s[CHOOSE k \in 1..Len(s) : Rank(k) = p - 1]]

\* The catch block up to the decision: the chosen judge, a wait on the
\* chain, or the TypeError of sortedJudges[0][1] on an empty array.
ReusePolicy(wsId) ==
    LET weighted == [k \in 1..Len(judges) |->
                        <<judges[k], JudgeWeight(judges[k], wsId)>>]
        sortedJudges == SortJudges(weighted)
    IN  IF Len(judges) = 0 \/ \E k \in 1..Len(judges) : WeightThrows(judges[k])
        THEN [kind |-> "throw", user |-> None]
        ELSE IF sortedJudges[1][2] # -Infinity
        THEN [kind |-> "reuse", user |-> sortedJudges[1][1]]
        ELSE [kind |-> "block", user |-> None]

\* AllocJudge trying the reuse policy before the fresh judge.
AllocJudgeReuseFirst(agent, wsId) ==
    IF Len(judges) > 0 /\ ReusePolicy(wsId).kind = "reuse"
    THEN ReusePolicy(wsId)
    ELSE IF agent # None THEN [kind |-> "fresh", user |-> agent]
    ELSE ReusePolicy(wsId)

\* case 'adjudicatorRole' after the await of allocAgent: agent is the fresh
\* judge, or None when allocAgent threw.
AllocJudge(agent, wsId) ==
    IF agent # None THEN [kind |-> "fresh", user |-> agent]
    ELSE ReusePolicy(wsId)

\* A push of whichever judge the allocation decided on, reused ones too.
JudgesAfterAnyUser(decision) ==
    IF decision.user # None THEN Append(judges, decision.user) ELSE judges

\* this.schedulerState.judges.push(judge) on the try branch.
JudgesAfter(decision) ==
    IF decision.kind = "fresh" THEN Append(judges, decision.user) ELSE judges

\* A registration that stores a closure without the one it found.
NotifyClosureAlone(w) == [kind |-> "first", resolve |-> w]

\* The two closures stored in state.notifyAvailable by a waiting caller w.
NotifyClosure(w) ==
    IF notifyAvailable = Null
    THEN [kind |-> "first", resolve |-> w]
    ELSE [kind |-> "chained", resolve |-> w, notify |-> notifyAvailable]

\* NotifyRearm with a chained closure that forgets the captured notify.
NotifyRearmLost(f) == Null

\* What a call of closure f leaves in state.notifyAvailable.
NotifyRearm(f) == IF f.kind = "first" THEN Null ELSE f.notify

\* state.notifyAvailable after the AllocUser step.
NotifyAfterAlloc(decision, w) ==
    IF decision.kind = "block" THEN NotifyClosure(w) ELSE notifyAvailable

(* ------------- FE.schedulerBody: UserWorking / UserWorkedOn ------------ *)

UserWorkingAvailable(user) == SetKey(judgeAvailable, user, FALSE)

UserWorkedOnAvailable(user) == SetKey(judgeAvailable, user, TRUE)

\* UserWorkedOn pushing the workspace without looking for it first.
UserWorkedOnHistoryPush(user, workspace) ==
    IF user \notin DOMAIN judgeWorkedOn
    THEN SetKey(judgeWorkedOn, user, <<workspace>>)
    ELSE [judgeWorkedOn EXCEPT ![user] = Append(@, workspace)]

\* A UserWorkedOn that records no workspace.
UserWorkedOnHistoryForgets(user, workspace) == judgeWorkedOn

UserWorkedOnHistory(user, workspace) ==
    IF user \notin DOMAIN judgeWorkedOn
    THEN SetKey(judgeWorkedOn, user, <<workspace>>)
    ELSE IF ~Includes(judgeWorkedOn[user], workspace)
    THEN [judgeWorkedOn EXCEPT ![user] = Append(@, workspace)]
    ELSE judgeWorkedOn

\* A UserWorkedOn that calls no closure.
UserWorkedOnResolvesNobody == None

\* The caller whose promise notify(user) resolves, None without a waiter.
UserWorkedOnResolves ==
    IF notifyAvailable = Null THEN None ELSE notifyAvailable.resolve

UserWorkedOnNotify ==
    IF notifyAvailable = Null THEN Null ELSE NotifyRearm(notifyAvailable)

\* A hand-off that gives the waiter the judge allocated first.
NotifyResolvesWithFirstJudge(user) == judges[1]

\* notify(user): the closure calls resolve(u), the waiter's allocation
\* returns the user of the UserWorkedOn message.
NotifyResolvesWith(user) == user

(***************************************************************************)
(* SchedSpec: FE.start allocates the two experts, then MaxClients          *)
(* adjudication steps (FE.adjudicate up to the UserWorkedOn notification)  *)
(* run, side by side as the sibling tasks of a fan-out do or one after     *)
(* another.  The steps are interchangeable, so they start in index order.  *)
(***************************************************************************)

Clients == 1..MaxClients

IdleClient == [pc |-> "idle", ws |-> <<>>, agent |-> None, u |-> None]

NoEvent == [kind |-> "none", client |-> None, user |-> None, ws |-> <<>>]

SchedInit ==
    /\ limit \in 0..MaxLimit
    /\ userCount = 0
    /\ judges = <<>>
    /\ judgeWorkedOn = <<>>
    /\ judgeAvailable = <<>>
    /\ notifyAvailable = Null
    /\ startPc = "honest"
    /\ clients = [c \in Clients |-> IdleClient]
    /\ blockOrder = <<>>
    /\ lastEvent = NoEvent
    /\ log = <<>>
    /\ dswLog = <<>>
    /\ tasks = <<>>
    /\ replaying = FALSE
    /\ supplied = <<>>
    /\ replayI = 0
    /\ reqCalls = <<>>
    /\ live = 0

\* FE.start: allocUser for the honest, then the malicious expert; the
\* expert branch of schedulerBody returns what allocAgent returns.
HAllocExpert ==
    /\ startPc \in {"honest", "malicious"}
    /\ startPc' = IF AgentRequester = None THEN "failed"
                  ELSE IF startPc = "honest" THEN "malicious" ELSE "adjudicate"
    /\ userCount' = AgentRequesterCount
    /\ lastEvent' = [kind |-> IF AgentRequester = None THEN "expertThrow"
                              ELSE "expert",
                     client |-> None, user |-> AgentRequester, ws |-> <<>>]
    /\ UNCHANGED <<limit, judges, judgeWorkedOn, judgeAvailable,
                   notifyAvailable, clients, blockOrder>>
    /\ UNCHANGED <<runVars, replayVars>>

\* FE.adjudicate calls allocUser: schedulerBody runs to its await of
\* allocAgent, where the agent source has answered already.
HAllocUser(c, wsId) ==
    /\ startPc = "adjudicate"
    /\ clients[c].pc = "idle"
    /\ \A k \in Clients : k < c => clients[k].pc # "idle"
    /\ clients' = [clients EXCEPT ![c] =
            [pc |-> "allocating", ws |-> wsId, agent |-> AgentRequester,
             u |-> None]]
    /\ userCount' = AgentRequesterCount
    /\ lastEvent' = [kind |-> "request", client |-> c, user |-> None,
                     ws |-> wsId]
    /\ UNCHANGED <<limit, judges, judgeWorkedOn, judgeAvailable,
                   notifyAvailable, startPc, blockOrder>>
    /\ UNCHANGED <<runVars, replayVars>>

\* schedulerBody resumes after allocAgent: the try branch or the catch
\* block, on the scheduler state as it is now.
HSchedulerAlloc(c) ==
    /\ clients[c].pc = "allocating"
    /\ LET decision == AllocJudge(clients[c].agent, clients[c].ws)
       IN  /\ judges' = JudgesAfter(decision)
           /\ notifyAvailable' = NotifyAfterAlloc(decision, c)
           /\ clients' = [clients EXCEPT
                 ![c].pc = CASE decision.kind = "block" -> "blocked"
                             [] decision.kind = "throw" -> "failed"
                             [] OTHER -> "returned",
                 ![c].u = decision.user]
           /\ blockOrder' = IF decision.kind = "block"
                            THEN Append(blockOrder, c) ELSE blockOrder
           /\ lastEvent' = [kind |-> decision.kind, client |-> c,
                            user |-> decision.user, ws |-> clients[c].ws]
    /\ UNCHANGED <<limit, userCount, judgeWorkedOn, judgeAvailable, startPc>>
    /\ UNCHANGED <<runVars, replayVars>>

\* allocUser returns to FE.adjudicate, which sends UserWorking.
HUserWorking(c) ==
    /\ clients[c].pc = "returned"
    /\ judgeAvailable' = UserWorkingAvailable(clients[c].u)
    /\ clients' = [clients EXCEPT ![c].pc = "working"]
    /\ lastEvent' = [kind |-> "working", client |-> c, user |-> clients[c].u,
                     ws |-> clients[c].ws]
    /\ UNCHANGED <<limit, userCount, judges, judgeWorkedOn, notifyAvailable,
                   startPc, blockOrder>>
    /\ UNCHANGED <<runVars, replayVars>>

\* The judge has answered: FE.adjudicate sends UserWorkedOn, and the
\* handler hands the judge to the waiter, if there is one.
HUserWorkedOn(c) ==
    /\ clients[c].pc = "working"
    /\ LET user == clients[c].u
           w == UserWorkedOnResolves
           resumed == w # None /\ clients[w].pc = "blocked"
           after == [k \in Clients |->
                        IF k = c THEN [clients[k] EXCEPT !.pc = "done"]
                        ELSE IF k = w /\ resumed
                        THEN [clients[k] EXCEPT !.pc = "returned",
                                                !.u = NotifyResolvesWith(user)]
                        ELSE clients[k]]
           StillBlocked(k) == after[k].pc = "blocked"
       IN  /\ judgeAvailable' = UserWorkedOnAvailable(user)
           /\ judgeWorkedOn' = UserWorkedOnHistory(user, clients[c].ws)
           /\ notifyAvailable' = UserWorkedOnNotify
           /\ clients' = after
           /\ blockOrder' = SelectSeq(blockOrder, StillBlocked)
           /\ lastEvent' = [kind |-> IF resumed THEN "handoff" ELSE "workedOn",
                            client |-> IF resumed THEN w ELSE None,
                            user |-> user, ws |-> clients[c].ws]
    /\ UNCHANGED <<limit, userCount, judges, startPc>>
    /\ UNCHANGED <<runVars, replayVars>>

SchedNext ==
    \/ HAllocExpert
    \/ \E c \in Clients, wsId \in ClientWorkspaces : HAllocUser(c, wsId)
    \/ \E c \in Clients : HSchedulerAlloc(c)
    \/ \E c \in Clients : HUserWorking(c)
    \/ \E c \in Clients : HUserWorkedOn(c)

SchedSpec == SchedInit /\ [][SchedNext]_vars

(* ---------------------- properties of SchedSpec ------------------------ *)

SomeJudgeAvailable == \E k \in 1..Len(judges) : IsAvailable(judges[k])

WorkedOn(judge, wsId) ==
    judge \in DOMAIN judgeWorkedOn /\ Includes(judgeWorkedOn[judge], wsId)

\* C1: wait-chain LIFO.  Every UserWorkedOn processed while allocation
\* requests are blocked resumes the most recently registered request that
\* is still blocked, and leaves every other blocked request blocked: of two
\* stacked waiters A then B, the first notification resumes B and the
\* second resumes A.
WaitChainLIFO ==
    [][ (blockOrder # <<>> /\
         \E c \in Clients : clients[c].pc = "working" /\ clients'[c].pc = "done")
        => LET b == blockOrder[Len(blockOrder)]
           IN  /\ clients'[b].pc = "returned"
               /\ \A k \in Clients \ {b} :
                      clients[k].pc = "blocked" => clients'[k].pc = "blocked"
      ]_vars

\* A notification has just resumed a waiter while an older one stays blocked.
WaitChainLIFOWitness ==
    lastEvent.kind = "handoff" /\ blockOrder # <<>>

\* C2: reuse-policy selection.  When the agent source has failed for a
\* judge allocation on path P and some allocated judge is marked available,
\* the scheduler returns at once a judge that is marked available, and one
\* that has P in its history if an available judge has.
ReusePolicySelection ==
    /\ lastEvent.kind \in {"block", "throw"} => ~SomeJudgeAvailable
    /\ lastEvent.kind = "reuse" =>
          /\ Includes(judges, lastEvent.user)
          /\ IsAvailable(lastEvent.user)
          /\ (\E k \in 1..Len(judges) :
                  IsAvailable(judges[k]) /\ WorkedOn(judges[k], lastEvent.ws))
             => WorkedOn(lastEvent.user, lastEvent.ws)

\* A judge that worked on P was reused although an available judge that
\* never worked on P was allocated before it, and a third one was busy.
ReusePolicySelectionWitness ==
    /\ lastEvent.kind = "reuse"
    /\ WorkedOn(lastEvent.user, lastEvent.ws)
    /\ \E k, m \in 1..Len(judges) :
          /\ k < m /\ judges[m] = lastEvent.user
          /\ IsAvailable(judges[k]) /\ ~WorkedOn(judges[k], lastEvent.ws)

\* C3: blocking instead of failing.  Whenever the agent source has failed
\* for a judge allocation and no allocated judge is marked available, also
\* when no judge was allocated yet, the request neither fails nor returns:
\* it is registered on the wait chain.
BlocksWhenNoneAvailable ==
    (lastEvent.kind \in {"reuse", "block", "throw"} /\ ~SomeJudgeAvailable)
    => /\ lastEvent.kind = "block"
       /\ clients[lastEvent.client].pc = "blocked"
       /\ notifyAvailable # Null /\ notifyAvailable.resolve = lastEvent.client

\* C10: fresh-first judge allocation.  A judge allocation whose agent
\* request succeeded returns that fresh participant, which is appended to
\* judges; a judge allocated before is returned only to a request whose
\* agent request failed.
FreshFirst ==
    /\ \A c \in Clients :
          (clients[c].pc \in {"returned", "working", "done"}
           /\ clients[c].agent # None)
          => clients[c].u = clients[c].agent /\ Includes(judges, clients[c].agent)
    /\ lastEvent.kind = "fresh" =>
          /\ judges # <<>> /\ judges[Len(judges)] = lastEvent.user
          /\ clients[lastEvent.client].agent = lastEvent.user
    /\ lastEvent.kind \in {"reuse", "handoff"} =>
          clients[lastEvent.client].agent = None

\* A fresh judge was returned although an available judge had already
\* worked on the requested path.
FreshFirstWitness ==
    /\ lastEvent.kind = "fresh"
    /\ \E k \in 1..Len(judges) :
          /\ judges[k] # lastEvent.user
          /\ IsAvailable(judges[k]) /\ WorkedOn(judges[k], lastEvent.ws)


\* The position of a judge in state.judges.
JudgePosition(judge) == CHOOSE k \in 1..Len(judges) : judges[k] = judge

\* C11: tie-breaking by allocation order.  The judge the reuse policy
\* returns has the largest weight for the requested path, and every judge
\* allocated before it has a smaller weight: of the judges that share the
\* largest weight, the one allocated first is returned.
TieBreakAllocationOrder ==
    lastEvent.kind = "reuse" =>
        LET m == JudgePosition(lastEvent.user)
            weight(k) == JudgeWeight(judges[k], lastEvent.ws)
        IN  /\ Includes(judges, lastEvent.user)
            /\ \A k \in 1..Len(judges) :
                  /\ weight(k) <= weight(m)
                  /\ k < m => weight(k) < weight(m)

\* The reuse policy has chosen between two available judges that both
\* worked on the requested path.
TieBreakAllocationOrderWitness ==
    /\ lastEvent.kind = "reuse"
    /\ \E k, m \in 1..Len(judges) :
          /\ k < m
          /\ IsAvailable(judges[k]) /\ WorkedOn(judges[k], lastEvent.ws)
          /\ IsAvailable(judges[m]) /\ WorkedOn(judges[m], lastEvent.ws)

\* The history of a user, empty when the user has none.
HistoryOf(history, user) ==
    IF user \in DOMAIN history THEN history[user] ELSE <<>>

\* C12: UserWorkedOn is idempotent on the history.  A UserWorkedOn(p, w)
\* step marks p available and leaves p's history equal to its previous
\* history, with w appended when it was not in it, and without duplicates;
\* a second UserWorkedOn(p, w) would change neither history nor
\* availability; judges and the entries of every other participant are
\* unchanged.
UserWorkedOnIdempotent ==
    [][ \A c \in Clients :
          (clients[c].pc = "working" /\ clients'[c].pc = "done") =>
            LET p == clients[c].u
                w == clients[c].ws
                old == HistoryOf(judgeWorkedOn, p)
                new == HistoryOf(judgeWorkedOn', p)
            IN  /\ IsAvailable(p)'
                /\ new = IF Includes(old, w) THEN old ELSE Append(old, w)
                /\ \A i, j \in DOMAIN new : new[i] = new[j] => i = j
                /\ UserWorkedOnHistory(p, w)' = judgeWorkedOn'
                /\ UserWorkedOnAvailable(p)' = judgeAvailable'
                /\ judges' = judges
                /\ \A q \in (DOMAIN judgeWorkedOn' \cup DOMAIN judgeAvailable')
                            \ {p} :
                      /\ q \in DOMAIN judgeWorkedOn' =>
                            /\ q \in DOMAIN judgeWorkedOn
                            /\ judgeWorkedOn'[q] = judgeWorkedOn[q]
                      /\ q \in DOMAIN judgeAvailable' =>
                            /\ q \in DOMAIN judgeAvailable
                            /\ judgeAvailable'[q] = judgeAvailable[q]
      ]_vars

\* A judge has finished a second adjudication step of one workspace, next
\* to another judge with a history.
UserWorkedOnIdempotentWitness ==
    /\ lastEvent.kind \in {"workedOn", "handoff"}
    /\ \E a, b \in Clients :
          /\ a # b
          /\ clients[a].pc = "done" /\ clients[b].pc = "done"
          /\ clients[a].u = lastEvent.user /\ clients[b].u = lastEvent.user
          /\ clients[a].ws = lastEvent.ws /\ clients[b].ws = lastEvent.ws
    /\ \E q \in DOMAIN judgeWorkedOn : q # lastEvent.user

\* C13: direct hand-off.  A UserWorkedOn(p, w) processed while a waiter is
\* registered resumes that waiter with p itself, whatever path the waiter
\* asked for and whatever the weights of the other judges for that path
\* are; p stays marked available after the hand-off.
DirectHandOff ==
    lastEvent.kind = "handoff" =>
        /\ clients[lastEvent.client].pc = "returned"
        /\ clients[lastEvent.client].u = lastEvent.user
        /\ IsAvailable(lastEvent.user)

\* The waiter got a judge that never worked on its path although an
\* available judge had.
DirectHandOffWitness ==
    /\ lastEvent.kind = "handoff"
    /\ ~WorkedOn(lastEvent.user, clients[lastEvent.client].ws)
    /\ \E k \in 1..Len(judges) :
          /\ judges[k] # lastEvent.user
          /\ IsAvailable(judges[k])
          /\ WorkedOn(judges[k], clients[lastEvent.client].ws)

\* The callers whose resolve the closure f and the closures it has captured
\* hold, newest first.
RECURSIVE ChainWaiters(_)
ChainWaiters(f) ==
    IF f = Null THEN <<>>
    ELSE IF f.kind = "first" THEN <<f.resolve>>
    ELSE <<f.resolve>> \o ChainWaiters(f.notify)

BlockedClients(cl) == {c \in Clients : cl[c].pc = "blocked"}

\* C27: no waiter is lost or woken twice.  After every step the closures
\* reachable from state.notifyAvailable hold the blocked allocation
\* requests, each once, so the slot is null exactly when none is blocked
\* and no request that was resumed can be resumed again.  A step leaves the
\* chain as it is, or resumes the one request at its front, or puts one
\* request that was being allocated in front of it: the chain keeps all the
\* other waiters.
NoWaiterLost ==
    [][ LET chain == ChainWaiters(notifyAvailable)
            after == ChainWaiters(notifyAvailable')
            blocked == BlockedClients(clients)
            still == BlockedClients(clients')
        IN  /\ {after[k] : k \in DOMAIN after} = still
            /\ Len(after) = Cardinality(still)
            /\ (notifyAvailable' = Null) = (still = {})
            /\ \/ still = blocked /\ after = chain
               \/ \E c \in blocked \ still :
                     /\ still = blocked \ {c}
                     /\ clients'[c].pc = "returned"
                     /\ chain = <<c>> \o after
               \/ \E c \in still \ blocked :
                     /\ still = blocked \cup {c}
                     /\ clients[c].pc = "allocating"
                     /\ after = <<c>> \o chain
      ]_vars

\* An allocation request has just registered while two others were stacked
\* on the chain.
NoWaiterLostWitness ==
    /\ lastEvent.kind = "block"
    /\ Len(ChainWaiters(notifyAvailable)) = 3

\* The participants the agent source has returned to the judge-role
\* allocations that schedulerBody has resumed.
JudgeRoleAgents(cl) ==
    {cl[c].agent : c \in {k \in Clients :
                              /\ cl[k].pc \notin {"idle", "allocating"}
                              /\ cl[k].agent # None}}

\* The ids FE.start receives for the honest and the malicious expert.
ExpertIds == {0, 1}

\* C29: the judges sequence.  It holds exactly the participants the agent
\* source returned to judge-role allocations, each once, in the order in
\* which the allocations were served: a step either leaves the sequence
\* alone or appends, at its end, the fresh judge of the allocation served
\* in that step.  No expert is in it; a reuse, a wait, a hand-off, a
\* UserWorking or a UserWorkedOn leaves it alone, and no entry is removed.
JudgesSequence ==
    [][ LET served == lastEvent'.client
        IN  /\ \/ judges' = judges
               \/ /\ lastEvent'.kind = "fresh"
                  /\ clients[served].pc = "allocating"
                  /\ clients[served].agent # None
                  /\ judges' = Append(judges, clients[served].agent)
            /\ lastEvent'.kind # "fresh" => judges' = judges
            /\ {judges'[k] : k \in DOMAIN judges'} = JudgeRoleAgents(clients')
            /\ Cardinality(JudgeRoleAgents(clients')) = Len(judges')
            /\ \A k \in DOMAIN judges' : judges'[k] \notin ExpertIds ]_vars

JudgesSequenceWitness ==
    /\ Len(judges) = 2
    /\ lastEvent.kind = "handoff"
    /\ \E c \in Clients : clients[c].pc = "done" /\ clients[c].u # clients[c].agent

(***************************************************************************)
(* Spec: one run of FE.start.  A step is the code between two awaits of    *)
(* one task; the external requester answers the pending interactions in    *)
(* any order.  The log indexes of the code count from 0: entry i is        *)
(* log[i + 1].                                                             *)
(***************************************************************************)

(* --------------------------- values ------------------------------------ *)

NoResp == [type |-> "none"]

NoAnswer == <<>>

\* The answer texts: the requester is deterministic, an expert's answer
\* names the template and the question it answers.
HonestAnswer(q) == [type |-> "Answer", answer |-> <<"honest", q>>]

MaliciousAnswer(q) == [type |-> "Answer", answer |-> <<"malicious", q>>]

\* What the external requester may answer to a template: the variant the
\* step expects, or another one.
Responses(template, data) ==
    CASE template = "honest_template" ->
            {HonestAnswer(data.question), [type |-> "ChoseHonest", choice |-> TRUE]}
      [] template = "malicious_template" ->
            {MaliciousAnswer(data.question), [type |-> "ChoseHonest", choice |-> FALSE]}
      [] OTHER ->
            {[type |-> "Questions", subquestions |-> sq] : sq \in SubQChoices}
            \cup {[type |-> "ChoseHonest", choice |-> b] : b \in BOOLEAN}
            \cup {[type |-> "Answer", answer |-> <<"judge", data.question>>]}

\* Promise.reject('No more users') and the TypeError of the reuse policy.
NoMoreUsers == [type |-> "error", message |-> "No more users"]

TypeError == [type |-> "error", message |-> "TypeError"]

(* ------------------------- log entries --------------------------------- *)

InteractCall(user, template, data) ==
    [type |-> "interactCall", user |-> user, template |-> template,
     data |-> data]

\* interact reading this._log.length after the push of its call.
InteractResponseAfterPush(logIndex, response) ==
    [type |-> "interactResponse", logIndex |-> logIndex + 1,
     response |-> response]

InteractResponse(logIndex, response) ==
    [type |-> "interactResponse", logIndex |-> logIndex,
     response |-> response]

SendScheduler(async, message) ==
    [type |-> "sendScheduler", async |-> async, message |-> message]

\* allocUser answering the first request of the log whatever it answers.
SendSchedulerResponseFirst(logIndex, response) ==
    [type |-> "sendSchedulerResponse", logIndex |-> 0,
     response |-> response]

SendSchedulerResponse(logIndex, response) ==
    [type |-> "sendSchedulerResponse", logIndex |-> logIndex,
     response |-> response]

AllocAgentEntry(extraData) == [type |-> "allocAgent", extraData |-> extraData]

ExpertHint(role) == [role |-> role]

JudgeHint(wsId) == [role |-> "adjudicatorRole", workspace |-> wsId]

AllocUserMessage(hint) == [type |-> "AllocUser", hint |-> hint]

\* An allocUser whose scheduler logs the agent request twice.
AllocUserEntriesTwice(hint) ==
    <<SendScheduler(FALSE, AllocUserMessage(hint)), AllocAgentEntry(hint),
      AllocAgentEntry(hint)>>

\* allocUser up to the await of allocAgent inside schedulerBody: the
\* request entry and the allocAgent entry.
AllocUserEntries(hint) ==
    <<SendScheduler(FALSE, AllocUserMessage(hint)), AllocAgentEntry(hint)>>

\* sendSchedulerAsync
UserWorkingEntry(user) ==
    SendScheduler(TRUE, [type |-> "UserWorking", user |-> user])

\* A UserWorkedOn message that names the top workspace, whatever the step.
UserWorkedOnEntryTop(user, workspace) ==
    SendScheduler(TRUE, [type |-> "UserWorkedOn", user |-> user,
                         workspace |-> <<"root">>])

UserWorkedOnEntry(user, workspace) ==
    SendScheduler(TRUE, [type |-> "UserWorkedOn", user |-> user,
                         workspace |-> workspace])

(* ------------------------- payloads ------------------------------------ *)

HonestData(q) == [question |-> q]

\* A malicious payload that carries the honest answer to the top question.
MaliciousDataTop(q, ha) ==
    [question |-> q, honest_answer |-> <<"honest", TopQuestion>>]

MaliciousData(q, ha) == [question |-> q, honest_answer |-> ha]

AdjudicateData(q, ha, ma, oldQs) ==
    [question |-> q, honest_answer |-> ha, malicious_answer |-> ma,
     subquestions |-> oldQs]

(* ---------------------- makeReplayRequester ---------------------------- *)

\* The while loop reading log[i] without the increment once it has found an
\* interactResponse entry.
RECURSIVE ReplayScanNoAdvance(_, _)
ReplayScanNoAdvance(lg, i) ==
    IF i < Len(lg)
    THEN IF lg[i + 1].type = "interactResponse"
         THEN [found |-> TRUE, response |-> lg[i + 1].response, i |-> i]
         ELSE ReplayScanNoAdvance(lg, i + 1)
    ELSE [found |-> FALSE, response |-> NoResp, i |-> i]

\* The while loop: from cursor i to the next interactResponse entry of lg.
RECURSIVE ReplayScan(_, _)
ReplayScan(lg, i) ==
    IF i < Len(lg)
    THEN IF lg[i + 1].type = "interactResponse"
         THEN [found |-> TRUE, response |-> lg[i + 1].response, i |-> i + 1]
         ELSE ReplayScan(lg, i + 1)
    ELSE [found |-> FALSE, response |-> NoResp, i |-> i]

\* The arguments the replay requester hands to the live requester.
Forwarded(user, template, logIndex, data) ==
    [user |-> user, template |-> template, logIndex |-> logIndex,
     data |-> data]

\* One call of the run's requester with cursor i: the live requester of a
\* first run, the replay requester of a second one.
Requester(i) ==
    IF replaying THEN ReplayScan(supplied, i)
    ELSE [found |-> FALSE, response |-> NoResp, i |-> i]

\* A push that writes over the last entry of the log.
PushOverwrite(lg, entry) ==
    IF lg = <<>> THEN <<entry>> ELSE [lg EXCEPT ![Len(lg)] = entry]

\* this._log.push(entry)
Push(lg, entry) == Append(lg, entry)

\* InteractionScript.interact up to its await, on the machine state
\* m = [log, i, calls]: the interactCall entry and the call of the requester.
Interact(m, user, template, data) ==
    LET logIndex == Len(m.log)
        scan == Requester(m.i)
    IN  [log |-> Push(m.log, InteractCall(user, template, data)),
         i |-> scan.i,
         calls |-> IF replaying
                   THEN Append(m.calls,
                          [args |-> [user |-> user, template |-> template,
                                     logIndex |-> logIndex, data |-> data],
                           served |-> scan.found,
                           response |-> scan.response,
                           forwarded |-> IF scan.found THEN NoResp
                                         ELSE Forwarded(user, template,
                                                        logIndex, data),
                           from |-> m.i, to |-> scan.i])
                   ELSE m.calls,
         logIndex |-> logIndex,
         served |-> scan.response]

Machine(lg) == [log |-> lg, i |-> replayI, calls |-> reqCalls]

(* ----------------------------- tasks ----------------------------------- *)

\* A task is FE.start (the root) or one callback of the fan-out, with the
\* arguments and locals of the FE.adjudicate call it is in.
NewTask(pc, parent, idx, q, wsId, ho, mo, call, served) ==
    [pc |-> pc, parent |-> parent, idx |-> idx, q |-> q, wsId |-> wsId,
     oldQs |-> <<>>,
     ha |-> NoAnswer, ma |-> NoAnswer, ho |-> ho, mo |-> mo, u |-> None,
     r |-> NoResp, call |-> call, agent |-> None, served |-> served,
     waited |-> FALSE,
     subQs |-> <<>>, kids |-> <<>>, result |-> NoAnswer, error |-> NoResp]

RootTask ==
    NewTask("start", 0, 0, TopQuestion, <<"root">>, None, None, None, NoResp)

Init ==
    /\ limit \in 0..MaxLimit
    /\ userCount = 0
    /\ judges = <<>>
    /\ judgeWorkedOn = <<>>
    /\ judgeAvailable = <<>>
    /\ notifyAvailable = Null
    /\ log = <<>>
    /\ dswLog = <<>>
    /\ tasks = <<RootTask>>
    /\ replaying = FALSE
    /\ supplied = <<>>
    /\ replayI = 0
    /\ reqCalls = <<>>
    /\ live = 0
    /\ startPc = "run"
    /\ clients = [c \in Clients |-> IdleClient]
    /\ blockOrder = <<>>
    /\ lastEvent = NoEvent

Tasks == DOMAIN tasks

\* A fan-in that does not reject when one of its callbacks does.
RejectsNone(t) == {}

\* The ancestors whose Promise.all (and so whose adjudicate call) rejects
\* when task t rejects: each is awaiting its fan-out.
RECURSIVE Rejects(_)
Rejects(t) ==
    LET p == tasks[t].parent
    IN  IF p = 0 \/ tasks[p].pc # "join" THEN {} ELSE {p} \cup Rejects(p)

\* A throw that replaces what was thrown by an error of its own.
FailGeneric(t, err) ==
    [k \in Tasks |->
        IF k = t \/ k \in Rejects(t)
        THEN [tasks[k] EXCEPT !.pc = "failed",
                              !.error = [type |-> "error", message |-> "failed"]]
        ELSE tasks[k]]

\* Task t throws err.
Fail(t, err) ==
    [k \in Tasks |->
        IF k = t \/ k \in Rejects(t)
        THEN [tasks[k] EXCEPT !.pc = "failed", !.error = err]
        ELSE tasks[k]]

\* The responses that may settle the interaction task t awaits: the one the
\* replay requester has resolved it with, or any answer of the live
\* requester.
Answers(t) ==
    LET call == log[tasks[t].call + 1]
    IN  IF tasks[t].pc \notin {"honest", "malicious", "judge"} THEN {}
        ELSE IF tasks[t].served # NoResp THEN {tasks[t].served}
        ELSE IF replaying /\ live >= MaxLive THEN {}
        ELSE {r \in Responses(call.template, call.data) :
                r.type = "Questions" =>
                    Len(tasks) + Len(r.subquestions) <= MaxTasks}

LiveAfter(t) ==
    IF replaying /\ tasks[t].served = NoResp THEN live + 1 ELSE live

(* ----------------------------- FE.start -------------------------------- *)

\* start calls allocUser for the honest expert.
Start ==
    /\ tasks[1].pc = "start"
    /\ log' = log \o AllocUserEntries(ExpertHint("honestExpertRole"))
    /\ userCount' = AgentRequesterCount
    /\ tasks' = [tasks EXCEPT ![1].pc = "allocHonest", ![1].call = Len(log),
                              ![1].agent = AgentRequester]
    /\ UNCHANGED <<limit, judges, judgeWorkedOn, judgeAvailable,
                   notifyAvailable, dswLog, replayVars, harnessVars, histVars>>

\* allocAgent has settled for an expert: schedulerBody returns the user or
\* rethrows, allocUser logs the response, and start interacts with the
\* expert.
ExpertAllocated(t) ==
    /\ tasks[t].pc \in {"allocHonest", "allocMalicious"}
    /\ Len(log) < MaxLog
    /\ LET tk == tasks[t]
           honest == tk.pc = "allocHonest"
           lg == Append(log, SendSchedulerResponse(tk.call, tk.agent))
           m == Interact(Machine(lg), tk.agent,
                    IF honest THEN "honest_template" ELSE "malicious_template",
                    IF honest THEN HonestData(tk.q)
                    ELSE MaliciousData(tk.q, tk.ha))
       IN  IF tk.agent = None
           THEN /\ tasks' = Fail(t, NoMoreUsers)
                /\ UNCHANGED <<log, replayI, reqCalls>>
           ELSE /\ log' = m.log
                /\ replayI' = m.i
                /\ reqCalls' = m.calls
                /\ tasks' = [tasks EXCEPT ![t] =
                      [tk EXCEPT !.pc = IF honest THEN "honest" ELSE "malicious",
                                 !.ho = IF honest THEN tk.agent ELSE tk.ho,
                                 !.mo = IF honest THEN tk.mo ELSE tk.agent,
                                 !.call = m.logIndex, !.served = m.served]]
    /\ UNCHANGED <<schedVars, dswLog, replaying, supplied, live, harnessVars,
                   histVars>>

\* The honest expert has answered: start goes on to allocate the malicious
\* expert, a fan-out callback to interact with it.
HonestResponds(t, r) ==
    /\ tasks[t].pc = "honest"
    /\ r \in Answers(t)
    /\ Len(log) < MaxLog
    /\ LET tk == tasks[t]
           lg == Append(log, InteractResponse(tk.call, r))
           m == Interact(Machine(lg), tk.mo, "malicious_template",
                         MaliciousData(tk.q, r.answer))
       IN  IF r.type # "Answer"
           THEN /\ log' = lg
                /\ tasks' = Fail(t, r)
                /\ UNCHANGED <<userCount, replayI, reqCalls>>
           ELSE IF tk.parent = 0
           THEN /\ log' = lg \o AllocUserEntries(ExpertHint("maliciousExpertRole"))
                /\ userCount' = AgentRequesterCount
                /\ tasks' = [tasks EXCEPT ![t] =
                      [tk EXCEPT !.pc = "allocMalicious", !.ha = r.answer,
                                 !.call = Len(lg), !.agent = AgentRequester,
                                 !.served = NoResp]]
                /\ UNCHANGED <<replayI, reqCalls>>
           ELSE /\ log' = m.log
                /\ replayI' = m.i
                /\ reqCalls' = m.calls
                /\ tasks' = [tasks EXCEPT ![t] =
                      [tk EXCEPT !.pc = "malicious", !.ha = r.answer,
                                 !.call = m.logIndex, !.served = m.served]]
                /\ UNCHANGED userCount
    /\ live' = LiveAfter(t)
    /\ UNCHANGED <<limit, judges, judgeWorkedOn, judgeAvailable,
                   notifyAvailable, dswLog, replaying, supplied, harnessVars,
                   histVars>>

(* --------------------------- FE.adjudicate ----------------------------- *)

\* wsId+'.subquestions['+i+']'
ChildPathNoOffset(wsId, j, i) == Append(wsId, i)

\* wsId+'.subquestions['+(j+i+1)+']'
ChildPathFromOne(wsId, j, i) == Append(wsId, j + i + 1)

\* wsId+'.subquestions['+(j+2*i)+']'
ChildPathSkipping(wsId, j, i) == Append(wsId, j + 2 * i)

\* wsId+'.subquestions['+(j+i)+']'
ChildPath(wsId, j, i) == Append(wsId, j + i)

\* r.choice ? ma : ha
VerdictSwapped(choice, ha, ma) == IF choice THEN ma ELSE ha

\* r.choice ? ha : ma
Verdict(choice, ha, ma) == IF choice THEN ha ELSE ma

\* The malicious expert has answered: the caller enters adjudicate, which
\* calls allocUser for a judge of its workspace.  A fan-out callback passes
\* the path of its child workspace.
MaliciousResponds(t, r) ==
    /\ tasks[t].pc = "malicious"
    /\ r \in Answers(t)
    /\ Len(log) < MaxLog
    /\ LET tk == tasks[t]
           lg == Append(log, InteractResponse(tk.call, r))
           path == IF tk.parent = 0 THEN tk.wsId
                   ELSE ChildPath(tasks[tk.parent].wsId,
                                  Len(tasks[tk.parent].oldQs), tk.idx)
       IN  IF r.type # "Answer"
           THEN /\ log' = lg
                /\ tasks' = Fail(t, r)
                /\ UNCHANGED userCount
           ELSE /\ log' = lg \o AllocUserEntries(JudgeHint(path))
                /\ userCount' = AgentRequesterCount
                /\ tasks' = [tasks EXCEPT ![t] =
                      [tk EXCEPT !.pc = "allocJudge", !.ma = r.answer,
                                 !.wsId = path, !.call = Len(lg),
                                 !.agent = AgentRequester, !.served = NoResp]]
    /\ live' = LiveAfter(t)
    /\ UNCHANGED <<limit, judges, judgeWorkedOn, judgeAvailable,
                   notifyAvailable, dswLog, replaying, supplied, replayI,
                   reqCalls, harnessVars, histVars>>

\* schedulerBody resumes after allocAgent in the adjudicatorRole case.
SchedulerAlloc(t) ==
    /\ tasks[t].pc = "allocJudge"
    /\ LET decision == AllocJudge(tasks[t].agent, tasks[t].wsId)
       IN  /\ judges' = JudgesAfter(decision)
           /\ notifyAvailable' = NotifyAfterAlloc(decision, t)
           /\ tasks' = CASE decision.kind = "throw" -> Fail(t, TypeError)
                         [] decision.kind = "block" ->
                              [tasks EXCEPT ![t].pc = "blocked",
                                            ![t].waited = TRUE]
                         [] OTHER ->
                              [tasks EXCEPT ![t].pc = "returned",
                                            ![t].u = decision.user]
    /\ UNCHANGED <<limit, userCount, judgeWorkedOn, judgeAvailable, log,
                   dswLog, replayVars, harnessVars, histVars>>

\* allocUser logs the response and returns the judge; adjudicate sends
\* UserWorking and interacts with the judge.
AllocReturn(t) ==
    /\ tasks[t].pc = "returned"
    /\ Len(log) < MaxLog
    /\ LET tk == tasks[t]
           lg == log \o <<SendSchedulerResponse(tk.call, tk.u),
                          UserWorkingEntry(tk.u)>>
           m == Interact(Machine(lg), tk.u, "adjudicate_template",
                         AdjudicateData(tk.q, tk.ha, tk.ma, tk.oldQs))
       IN  /\ judgeAvailable' = UserWorkingAvailable(tk.u)
           /\ log' = m.log
           /\ replayI' = m.i
           /\ reqCalls' = m.calls
           /\ tasks' = [tasks EXCEPT ![t] =
                 [tk EXCEPT !.pc = "judge", !.call = m.logIndex,
                            !.served = m.served]]
    /\ UNCHANGED <<limit, userCount, judges, judgeWorkedOn, notifyAvailable,
                   dswLog, replaying, supplied, live, harnessVars, histVars>>

\* The judge has answered: adjudicate sends UserWorkedOn, whose handler
\* hands the judge to the waiter of the chain, and starts the setValue
\* calls.
JudgeResponds(t, r) ==
    /\ tasks[t].pc = "judge"
    /\ r \in Answers(t)
    /\ Len(log) < MaxLog
    /\ LET tk == tasks[t]
           w == UserWorkedOnResolves
       IN  /\ log' = log \o <<InteractResponse(tk.call, r),
                              UserWorkedOnEntry(tk.u, tk.wsId)>>
           /\ judgeAvailable' = UserWorkedOnAvailable(tk.u)
           /\ judgeWorkedOn' = UserWorkedOnHistory(tk.u, tk.wsId)
           /\ notifyAvailable' = UserWorkedOnNotify
           /\ tasks' = [k \in Tasks |->
                 IF k = t THEN [tk EXCEPT !.pc = "project", !.r = r]
                 ELSE IF k = w /\ tasks[k].pc = "blocked"
                 THEN [tasks[k] EXCEPT !.pc = "returned",
                                       !.u = NotifyResolvesWith(tk.u)]
                 ELSE tasks[k]]
    /\ live' = LiveAfter(t)
    /\ UNCHANGED <<limit, userCount, judges, dswLog, replaying, supplied,
                   replayI, reqCalls, harnessVars, histVars>>

\* A setValue that writes every value to path+'.answer'.
SetValueAsAnswer(path, field, value) ==
    [type |-> "set", path |-> path, field |-> "answer", value |-> value]

\* this.model.setValue(path+'.'+field, value) as DataSourceWrapper logs it.
SetValue(path, field, value) ==
    [type |-> "set", path |-> path, field |-> field, value |-> value]

\* subQs.map(async (subQ, i) => ...) from index i on: every callback runs to
\* the await of its honest interaction.  new holds the tasks created.
RECURSIVE FanOut(_, _, _, _, _)
FanOut(m, t, tk, subQs, i) ==
    IF i >= Len(subQs) THEN [m |-> m, new |-> <<>>]
    ELSE LET mi == Interact(m, tk.ho, "honest_template",
                            HonestData(subQs[i + 1]))
             child == NewTask("honest", t, i, subQs[i + 1], <<>>, tk.ho,
                              tk.mo, mi.logIndex, mi.served)
             rest == FanOut(mi, t, tk, subQs, i + 1)
         IN  [m |-> rest.m, new |-> <<child>> \o rest.new]

\* The four setValue calls are through: adjudicate branches on the judge's
\* response.
Projected(t) ==
    /\ tasks[t].pc = "project"
    /\ LET tk == tasks[t]
           subQs == tk.r.subquestions
           fan == FanOut(Machine(log), t, tk, subQs, 0)
       IN  /\ dswLog' = dswLog \o
                 <<SetValue(tk.wsId, "userId", tk.u),
                   SetValue(tk.wsId, "question", tk.q),
                   SetValue(tk.wsId, "honest_answer", tk.ha),
                   SetValue(tk.wsId, "malicious_answer", tk.ma)>>
           /\ CASE tk.r.type = "Questions" ->
                    /\ subQs # <<>> => Len(log) < MaxLog
                    /\ log' = fan.m.log
                    /\ replayI' = fan.m.i
                    /\ reqCalls' = fan.m.calls
                    /\ tasks' = [tasks EXCEPT ![t] =
                          [tk EXCEPT !.pc = "join", !.subQs = subQs,
                                     !.kids = [k \in 1..Len(subQs) |->
                                                  Len(tasks) + k]]]
                          \o fan.new
                [] tk.r.type = "ChoseHonest" ->
                    /\ tasks' = [tasks EXCEPT ![t] =
                          [tk EXCEPT !.pc = "answer",
                                     !.result = Verdict(tk.r.choice, tk.ha,
                                                        tk.ma)]]
                    /\ UNCHANGED <<log, replayI, reqCalls>>
                [] OTHER ->
                    /\ tasks' = Fail(t, tk.r)
                    /\ UNCHANGED <<log, replayI, reqCalls>>
    /\ UNCHANGED <<schedVars, replaying, supplied, live, harnessVars,
                   histVars>>

\* setValue(wsId+'.answer', answer) is through: adjudicate returns answer.
Answered(t) ==
    /\ tasks[t].pc = "answer"
    /\ dswLog' = Append(dswLog, SetValue(tasks[t].wsId, "answer",
                                         tasks[t].result))
    /\ tasks' = [tasks EXCEPT ![t].pc = "done"]
    /\ UNCHANGED <<schedVars, log, replayVars, harnessVars, histVars>>

\* A context that holds the new pairs only.
NewQsOnly(oldQs, subQs, subAnswers) ==
    [k \in DOMAIN subQs |-> <<subQs[k], subAnswers[k]>>]

\* oldQs.concat(subQs.map((q, i) => [q, subAnswers[i]]))
NewQs(oldQs, subQs, subAnswers) ==
    oldQs \o [k \in DOMAIN subQs |-> <<subQs[k], subAnswers[k]>>]

\* Promise.all has resolved: adjudicate calls itself on the same workspace
\* with the subquestions and their answers appended.
Join(t) ==
    /\ tasks[t].pc = "join"
    /\ \A k \in DOMAIN tasks[t].kids : tasks[tasks[t].kids[k]].pc = "done"
    /\ Len(log) < MaxLog
    /\ LET tk == tasks[t]
           subAnswers == [k \in DOMAIN tk.kids |-> tasks[tk.kids[k]].result]
           newQs == NewQs(tk.oldQs, tk.subQs, subAnswers)
       IN  /\ log' = log \o AllocUserEntries(JudgeHint(tk.wsId))
           /\ userCount' = AgentRequesterCount
           /\ tasks' = [tasks EXCEPT ![t] =
                 [tk EXCEPT !.pc = "allocJudge", !.oldQs = newQs,
                            !.call = Len(log), !.agent = AgentRequester,
                            !.u = None, !.r = NoResp, !.subQs = <<>>,
                            !.kids = <<>>, !.waited = FALSE]]
    /\ UNCHANGED <<limit, judges, judgeWorkedOn, judgeAvailable,
                   notifyAvailable, dswLog, replayVars, harnessVars, histVars>>

Next ==
    \/ Start
    \/ \E t \in Tasks : ExpertAllocated(t)
    \/ \E t \in Tasks : \E r \in Answers(t) : HonestResponds(t, r)
    \/ \E t \in Tasks : \E r \in Answers(t) : MaliciousResponds(t, r)
    \/ \E t \in Tasks : SchedulerAlloc(t)
    \/ \E t \in Tasks : AllocReturn(t)
    \/ \E t \in Tasks : \E r \in Answers(t) : JudgeResponds(t, r)
    \/ \E t \in Tasks : Projected(t)
    \/ \E t \in Tasks : Answered(t)
    \/ \E t \in Tasks : Join(t)

Spec == Init /\ [][Next]_vars

(***************************************************************************)
(* ReplaySpec: the run of Spec, then new FE(makeReplayRequester(           *)
(* script.log.slice(0, n), requester), ...).start(...), for the log of any *)
(* state of the first run and any n up to MaxPrefix.                       *)
(***************************************************************************)

StartReplay ==
    /\ ~replaying
    /\ \E n \in 1..MaxPrefix :
          /\ n <= Len(log)
          /\ supplied' = SubSeq(log, 1, n)
    /\ replaying' = TRUE
    /\ replayI' = 0
    /\ reqCalls' = <<>>
    /\ live' = 0
    /\ userCount' = 0
    /\ judges' = <<>>
    /\ judgeWorkedOn' = <<>>
    /\ judgeAvailable' = <<>>
    /\ notifyAvailable' = Null
    /\ log' = <<>>
    /\ dswLog' = <<>>
    /\ tasks' = <<RootTask>>
    /\ UNCHANGED <<limit, harnessVars, histVars>>

ReplayNext == Next \/ StartReplay

ReplaySpec == Init /\ [][ReplayNext]_vars

(***************************************************************************)
(* Properties of the log, the verdict and the workspace paths (Spec).      *)
(***************************************************************************)

IsResponse(e) == e.type \in {"interactResponse", "sendSchedulerResponse"}

\* A request that awaits a response: an interactCall or a sendScheduler
\* that is not async.
IsRequest(e) ==
    \/ e.type = "interactCall"
    \/ e.type = "sendScheduler" /\ ~e.async

\* The positions of lg (from 1) of the response entries whose index is i.
ResponsesTo(lg, i) ==
    {p \in 1..Len(lg) : IsResponse(lg[p]) /\ lg[p].logIndex = i}

\* Every request of lg that awaits a response has exactly one, later in lg.
AllAnswered(lg) ==
    \A p \in 1..Len(lg) :
        IsRequest(lg[p]) =>
            /\ Cardinality(ResponsesTo(lg, p - 1)) = 1
            /\ \A q \in ResponsesTo(lg, p - 1) : q > p

\* C4: log pairing.  In every state, each response entry of the log, at
\* position p, carries an index i < p; the entry at i is an interactCall for
\* an interactResponse and a sendScheduler that is not async for a
\* sendSchedulerResponse; no two response entries carry the same index.
LogPairing ==
    \A p \in 1..Len(log) :
        IsResponse(log[p]) =>
            LET i == log[p].logIndex
            IN  /\ 0 <= i /\ i < p - 1
                /\ log[p].type = "interactResponse" =>
                       log[i + 1].type = "interactCall"
                /\ log[p].type = "sendSchedulerResponse" =>
                       log[i + 1].type = "sendScheduler" /\ ~log[i + 1].async
                /\ ResponsesTo(log, i) = {p}

\* Two sibling interactions are pending together and one was answered after
\* other entries were appended; an async notification is in the log.
LogPairingWitness ==
    /\ \E p \in 1..Len(log) :
          log[p].type = "interactResponse" /\ log[p].logIndex + 2 < p
    /\ \E p \in 1..Len(log) : log[p].type = "sendScheduler" /\ log[p].async

VerdictOwnAnswers ==
    /\ \A t \in Tasks :
          tasks[t].pc \in {"answer", "done"} =>
              /\ tasks[t].r.type = "ChoseHonest"
              /\ tasks[t].result =
                    IF tasks[t].r.choice
                    THEN HonestAnswer(tasks[t].q).answer
                    ELSE MaliciousAnswer(tasks[t].q).answer
    /\ tasks[1].pc = "done" =>
          tasks[1].result \in {HonestAnswer(TopQuestion).answer,
                               MaliciousAnswer(TopQuestion).answer}

\* start has resolved to the malicious answer after the judge had seen the
\* answer of a subquestion.
VerdictOwnAnswersWitness ==
    /\ tasks[1].pc = "done"
    /\ tasks[1].oldQs # <<>>
    /\ ~tasks[1].r.choice
    /\ \E t \in Tasks : tasks[t].parent # 0 /\ tasks[t].pc = "done"

\* The tasks that are child adjudications: fan-out callbacks that have
\* called adjudicate.
ChildAdjudications ==
    {t \in Tasks : tasks[t].parent # 0 /\ tasks[t].wsId # <<>>}

\* C7: workspace path uniqueness.  No two distinct child adjudications of a
\* run have the same workspace path, whatever their depth and whichever
\* visit of their parent created them; none has the path of the root.
PathUniqueness ==
    \A a \in ChildAdjudications :
        /\ tasks[a].wsId # tasks[1].wsId
        /\ \A b \in ChildAdjudications \ {a} : tasks[a].wsId # tasks[b].wsId

\* Two visits of one workspace have each created a first child.
PathUniquenessWitness ==
    \E a, b \in ChildAdjudications :
        /\ a # b
        /\ tasks[a].parent = tasks[b].parent
        /\ tasks[a].idx = tasks[b].idx

\* C14: an expert allocation failure is terminal.  When the agent source
\* has failed for the honest or the malicious expert, the next step fails
\* start with the agent source's error, leaves judges, histories,
\* availability and the wait chain as they were and appends nothing to the
\* log; nothing happens after it.
ExpertFailureTerminal ==
    [][ /\ \A t \in Tasks :
              (tasks[t].pc \in {"allocHonest", "allocMalicious"}
               /\ tasks[t].agent = None)
              => /\ tasks'[1].pc = "failed"
                 /\ tasks'[1].error = NoMoreUsers
                 /\ UNCHANGED <<judges, judgeWorkedOn, judgeAvailable,
                                notifyAvailable, log, dswLog>>
        /\ tasks[1].error # NoMoreUsers
      ]_vars

\* start has failed on the allocation of the malicious expert, after the
\* honest expert had answered.
ExpertFailureTerminalWitness ==
    /\ tasks[1].pc = "failed"
    /\ tasks[1].error = NoMoreUsers
    /\ tasks[1].ho # None
    /\ \E p \in 1..Len(log) : log[p].type = "interactResponse"

\* Task t throws the response it got in this step: an expert's response
\* that is not an Answer, or a judge's response that is one.
ThrowsResponse(t) ==
    /\ tasks'[t].pc = "failed"
    /\ \/ tasks[t].pc \in {"honest", "malicious"}
       \/ tasks[t].pc = "project" /\ tasks[t].r.type = "Answer"

\* The response task t throws in this step.
ThrownResponse(t) ==
    IF tasks[t].pc = "project" THEN tasks[t].r
    ELSE log'[Len(log')].response

\* No answer is kept or written for the workspace of a failed task.
NoAnswerWhereFailed ==
    \A t \in Tasks :
        tasks[t].pc = "failed" =>
            /\ tasks[t].result = NoAnswer
            /\ \A k \in 1..Len(dswLog) :
                  ~(dswLog[k].field = "answer" /\ dswLog[k].path = tasks[t].wsId)

ResponsePositions(lg, tpl, q) ==
    SelectSeq([p \in 1..Len(lg) |-> p],
              LAMBDA p : /\ lg[p].type = "interactResponse"
                         /\ lg[lg[p].logIndex + 1].template = tpl
                         /\ lg[lg[p].logIndex + 1].data.question = q)

\* The responses the judges of question q got, in log order.
JudgeResponsesFor(q) ==
    LET ps == ResponsePositions(log, "adjudicate_template", q)
    IN  [k \in 1..Len(ps) |-> log[ps[k]].response]

\* The log is one of a responder that answers every expert with an Answer
\* and every judge with the verdict for the first answer.
ScriptedNoDecomposition ==
    \A p \in 1..Len(log) :
        log[p].type = "interactResponse" =>
            IF log[log[p].logIndex + 1].template = "adjudicate_template"
            THEN log[p].response = [type |-> "ChoseHonest", choice |-> TRUE]
            ELSE log[p].response.type = "Answer"

EntriesOfType(type) == {p \in 1..Len(log) : log[p].type = type}

\* C16: end to end without decomposition.  With an agent source of at least
\* 3 participants, a responder that answers every expert with an Answer and
\* every judge with the verdict for the first answer never makes start
\* fail or decompose, and when start has resolved its result is the answer
\* the responder gave the honest expert; the log then holds exactly 3
\* allocations (honest, malicious, judge), 3 interaction pairs and no
\* Decompose response.
EndToEndNoDecomposition ==
    (limit >= 3 /\ ScriptedNoDecomposition) =>
        /\ tasks[1].pc # "failed"
        /\ Len(tasks) = 1
        /\ \A p \in EntriesOfType("interactResponse") :
              log[p].response.type # "Questions"
        /\ tasks[1].pc = "done" =>
              /\ Cardinality(EntriesOfType("allocAgent")) = 3
              /\ {log[p].extraData.role : p \in EntriesOfType("allocAgent")}
                    = {"honestExpertRole", "maliciousExpertRole",
                       "adjudicatorRole"}
              /\ Cardinality({p \in EntriesOfType("sendScheduler") :
                                 ~log[p].async}) = 3
              /\ Cardinality(EntriesOfType("interactCall")) = 3
              /\ Cardinality(EntriesOfType("interactResponse")) = 3
              /\ AllAnswered(log)
              /\ log[4].template = "honest_template"
              /\ log[5].logIndex = 3
              /\ tasks[1].result = log[5].response.answer

\* start has resolved under that responder.
EndToEndNoDecompositionWitness ==
    /\ limit >= 3
    /\ ScriptedNoDecomposition
    /\ tasks[1].pc = "done"
    /\ tasks[1].result = HonestAnswer(TopQuestion).answer

\* C17: end to end with one decomposition.  When the judge of the root has
\* answered Decompose with the one subquestion "sub1", then the verdict for
\* the second answer, and the judge of the child a verdict, start has
\* resolved to the malicious answer to the top question, not the one to
\* "sub1", and the one child path created is root.subquestions[0].
EndToEndOneDecomposition ==
    (/\ tasks[1].pc = "done"
     /\ JudgeResponsesFor(TopQuestion) =
           <<[type |-> "Questions", subquestions |-> <<"sub1">>],
             [type |-> "ChoseHonest", choice |-> FALSE]>>
     /\ \A k \in DOMAIN JudgeResponsesFor("sub1") :
           JudgeResponsesFor("sub1")[k].type = "ChoseHonest")
    => /\ tasks[1].result = MaliciousAnswer(TopQuestion).answer
       /\ tasks[1].result # MaliciousAnswer("sub1").answer
       /\ tasks[1].result =
             log[ResponsePositions(log, "malicious_template",
                                   TopQuestion)[1]].response.answer
       /\ {tasks[t].wsId : t \in Tasks \ {1}} = {<<"root", 0>>}
       /\ Cardinality(Tasks) = 2
       /\ {dswLog[k].path : k \in 1..Len(dswLog)}
             = {<<"root">>, <<"root", 0>>}

\* start has resolved after that decomposition.
EndToEndOneDecompositionWitness ==
    /\ tasks[1].pc = "done"
    /\ Len(JudgeResponsesFor(TopQuestion)) = 2
    /\ JudgeResponsesFor(TopQuestion)[1].type = "Questions"
    /\ JudgeResponsesFor(TopQuestion)[1].subquestions = <<"sub1">>
    /\ ~JudgeResponsesFor(TopQuestion)[2].choice
    /\ Len(JudgeResponsesFor("sub1")) = 1

\* The positions of the log, in order.
LogPositions == [i \in 1..Len(log) |-> i]

IsJudgeRequest(e) ==
    /\ e.type = "sendScheduler"
    /\ ~e.async
    /\ e.message.type = "AllocUser"
    /\ e.message.hint.role = "adjudicatorRole"

IsAsync(e, type) ==
    e.type = "sendScheduler" /\ e.async /\ e.message.type = type

IsJudgeCall(e) ==
    e.type = "interactCall" /\ e.template = "adjudicate_template"

\* The responses to judge allocation requests, the UserWorking entries, the
\* judge interactCalls, their interactResponses and the UserWorkedOn
\* entries: the positions of each kind in log order.
JudgeAllocations ==
    LET Test(i) == /\ log[i].type = "sendSchedulerResponse"
                   /\ IsJudgeRequest(log[log[i].logIndex + 1])
    IN  SelectSeq(LogPositions, Test)

UserWorkings ==
    LET Test(i) == IsAsync(log[i], "UserWorking")
    IN  SelectSeq(LogPositions, Test)

JudgeCalls ==
    LET Test(i) == IsJudgeCall(log[i])
    IN  SelectSeq(LogPositions, Test)

JudgeResponses ==
    LET Test(i) == /\ log[i].type = "interactResponse"
                   /\ IsJudgeCall(log[log[i].logIndex + 1])
    IN  SelectSeq(LogPositions, Test)

UserWorkedOns ==
    LET Test(i) == IsAsync(log[i], "UserWorkedOn")
    IN  SelectSeq(LogPositions, Test)

\* C19: judge notification ordering.  The k-th judge interactCall of the
\* log comes after the k-th response to a judge allocation request (itself
\* after its request) and the k-th async UserWorking entry, in this order,
\* and all three name the same judge.  The j-th interactResponse of a judge
\* comes after its interactCall and before the j-th async UserWorkedOn
\* entry, which names the judge of that call and the path in the hint of
\* its step's allocation request, with no interactCall in between; and while the step has not gone past its
\* setValue calls, the judge's history holds the path.
JudgeNotificationOrdering ==
    LET allocs == JudgeAllocations
        workings == UserWorkings
        calls == JudgeCalls
        responses == JudgeResponses
        workedOns == UserWorkedOns
    IN  /\ Len(allocs) = Len(calls)
        /\ Len(workings) = Len(calls)
        /\ Len(workedOns) = Len(responses)
        /\ \A k \in 1..Len(calls) :
              /\ log[allocs[k]].logIndex + 1 < allocs[k]
              /\ allocs[k] < workings[k]
              /\ workings[k] < calls[k]
              /\ log[allocs[k]].response = log[calls[k]].user
              /\ log[workings[k]].message.user = log[calls[k]].user
        /\ \A j \in 1..Len(responses) :
              LET call == log[responses[j]].logIndex + 1
              IN  /\ call < responses[j]
                  /\ responses[j] < workedOns[j]
                  /\ log[workedOns[j]].message.user = log[call].user
                  /\ \E k \in 1..Len(calls) :
                        /\ calls[k] = call
                        /\ log[workedOns[j]].message.workspace =
                               log[log[allocs[k]].logIndex + 1]
                                   .message.hint.workspace
                  /\ \A i \in responses[j]..workedOns[j] :
                        log[i].type # "interactCall"
        /\ \A t \in Tasks :
              tasks[t].pc = "project" =>
                  /\ tasks[t].u \in DOMAIN judgeWorkedOn
                  /\ Includes(judgeWorkedOn[tasks[t].u], tasks[t].wsId)

\* A judge has answered Questions for the root and a verdict for a child
\* workspace, and a UserWorkedOn entry follows each of the two responses.
JudgeNotificationOrderingWitness ==
    /\ Len(UserWorkedOns) >= 2
    /\ \E j \in 1..Len(JudgeResponses) :
          /\ log[JudgeResponses[j]].response.type = "Questions"
          /\ log[JudgeResponses[j]].response.subquestions # <<>>
          /\ log[UserWorkedOns[j]].message.workspace = <<"root">>
    /\ \E j \in 1..Len(JudgeResponses) :
          /\ log[JudgeResponses[j]].response.type = "ChoseHonest"
          /\ Len(log[UserWorkedOns[j]].message.workspace) = 2

\* The fan-in of task t resolves in this step: adjudicate calls itself.
Requeries(t) ==
    /\ t \in Tasks
    /\ tasks[t].pc = "join"
    /\ tasks'[t].pc = "allocJudge"

\* The position in dswLog of the answer written for workspace path, 0 when
\* there is none.
AnswerWritten(path) ==
    LET at == {i \in 1..Len(dswLog) :
                  dswLog[i].path = path /\ dswLog[i].field = "answer"}
    IN  IF at = {} THEN 0 ELSE CHOOSE i \in at : \A k \in at : i <= k

\* C20: fan-in and context order.  When adjudicate calls itself after a
\* Decompose, every child adjudication of the decomposition has resolved
\* and its answer is written; the call is for the same workspace, and its
\* list is the previous list followed by the pairs (subquestion k, answer
\* child k resolved with) in the order the judge listed the subquestions.
\* The payload of every judge interaction carries the list of its call, and
\* start and the callback of a subquestion enter adjudicate with an empty
\* list.
FanInContextOrder ==
    [][ /\ \A t \in Tasks :
              Requeries(t) =>
                  /\ \A k \in DOMAIN tasks[t].kids :
                        /\ tasks[tasks[t].kids[k]].pc = "done"
                        /\ AnswerWritten(tasks[tasks[t].kids[k]].wsId) > 0
                  /\ tasks'[t].wsId = tasks[t].wsId
                  /\ Len(tasks'[t].oldQs) =
                         Len(tasks[t].oldQs) + Len(tasks[t].subQs)
                  /\ \A i \in 1..Len(tasks[t].oldQs) :
                        tasks'[t].oldQs[i] = tasks[t].oldQs[i]
                  /\ \A k \in 1..Len(tasks[t].subQs) :
                        tasks'[t].oldQs[Len(tasks[t].oldQs) + k] =
                            <<tasks[t].subQs[k],
                              tasks[tasks[t].kids[k]].result>>
        /\ \A t \in DOMAIN tasks' :
              /\ tasks'[t].pc = "judge" =>
                    log'[tasks'[t].call + 1].data.subquestions =
                        tasks'[t].oldQs
              /\ (\/ tasks'[t].pc \in {"honest", "malicious"}
                  \/ /\ t \in Tasks
                     /\ tasks[t].pc = "malicious"
                     /\ tasks'[t].pc = "allocJudge") =>
                    tasks'[t].oldQs = <<>>
      ]_vars

\* The fan-in of two subquestions has resolved after the second child had
\* resolved before the first: adjudicate has called itself with the two
\* pairs in the order of the subquestions.
FanInContextOrderWitness ==
    \E t \in Tasks :
        /\ tasks[t].pc = "allocJudge"
        /\ Len(tasks[t].oldQs) = 2
        /\ tasks[t].oldQs[1][1] = "sub1"
        /\ tasks[t].oldQs[1][2] = <<"honest", "sub1">>
        /\ tasks[t].oldQs[2][1] = "sub2"
        /\ tasks[t].oldQs[2][2] = <<"malicious", "sub2">>
        /\ AnswerWritten(Append(tasks[t].wsId, 1)) > 0
        /\ AnswerWritten(Append(tasks[t].wsId, 1))
               < AnswerWritten(Append(tasks[t].wsId, 0))

\* Task t of tks awaits the response to an interaction, or to an
\* allocation request.
AwaitsInteraction(tks, t) == tks[t].pc \in {"honest", "malicious", "judge"}

AwaitsAllocation(tks, t) ==
    tks[t].pc \in {"allocHonest", "allocMalicious", "allocJudge", "blocked",
                   "returned"}

\* The participant and the template of the interaction task t awaits.
AwaitedUser(tks, t) ==
    CASE tks[t].pc = "honest" -> tks[t].ho
      [] tks[t].pc = "malicious" -> tks[t].mo
      [] OTHER -> tks[t].u

AwaitedTemplate(tks, t) ==
    CASE tks[t].pc = "honest" -> "honest_template"
      [] tks[t].pc = "malicious" -> "malicious_template"
      [] OTHER -> "adjudicate_template"

\* C21: single-writer log.  Every step leaves the log it found as a prefix
\* of the new log.  The index an interaction holds (the logIndex handed to
\* the requester) is the position of its interactCall entry, the index an
\* allocation holds is the position of its request entry; no two pending
\* requests hold the same index, none holds the index of a response in the
\* log, and no two responses in the log carry the same index.
SingleWriterLog ==
    [][ LET responses == {p \in DOMAIN log' : IsResponse(log'[p])}
            answered == {log'[p].logIndex : p \in responses}
            pending == {t \in DOMAIN tasks' :
                           \/ AwaitsInteraction(tasks', t)
                           \/ AwaitsAllocation(tasks', t)}
        IN  /\ Len(log') >= Len(log)
            /\ SubSeq(log', 1, Len(log)) = log
            /\ \A t \in pending :
                  LET at == tasks'[t].call + 1
                  IN  /\ at \in DOMAIN log'
                      /\ AwaitsInteraction(tasks', t) =>
                            /\ log'[at].type = "interactCall"
                            /\ log'[at].user = AwaitedUser(tasks', t)
                            /\ log'[at].template = AwaitedTemplate(tasks', t)
                      /\ AwaitsAllocation(tasks', t) =>
                            /\ log'[at].type = "sendScheduler"
                            /\ ~log'[at].async
                      /\ tasks'[t].call \notin answered
            /\ Cardinality({tasks'[t].call : t \in pending})
                   = Cardinality(pending)
            /\ Cardinality(answered) = Cardinality(responses)
      ]_vars

\* Two callbacks of one fan-out await their interactions together, issued
\* at different indices, after one of them has appended a response.
SingleWriterLogWitness ==
    \E t, k \in Tasks :
        /\ t # k
        /\ tasks[t].parent # 0
        /\ tasks[t].parent = tasks[k].parent
        /\ tasks[t].pc = "malicious"
        /\ tasks[k].pc = "honest"
        /\ tasks[t].call > tasks[k].call

\* The callbacks created for the subquestions of task p over all its
\* visits, and those created before callback k.
ChildrenOf(p) == {k \in Tasks : tasks[k].parent = p}

EarlierChildren(p, k) == {c \in ChildrenOf(p) : c < k}

\* C22: child index continuation.  The callbacks of the current Decompose
\* of workspace W are numbered from 0 in subquestion order, and the number c
\* of callbacks of earlier visits is the length of W's accumulated list; a
\* callback that has entered adjudicate has the path W followed by the
\* number of callbacks created for W before it, which for the k-th
\* subquestion of the current visit is c + k.
ChildIndexContinuation ==
    \A p \in Tasks :
        /\ tasks[p].pc # "failed" =>
              Cardinality(ChildrenOf(p))
                  = Len(tasks[p].oldQs) + Len(tasks[p].kids)
        /\ \A i \in DOMAIN tasks[p].kids :
              /\ tasks[tasks[p].kids[i]].parent = p
              /\ tasks[tasks[p].kids[i]].idx = i - 1
              /\ tasks[tasks[p].kids[i]].q = tasks[p].subQs[i]
              /\ Cardinality(EarlierChildren(p, tasks[p].kids[i]))
                     = Len(tasks[p].oldQs) + (i - 1)
        /\ \A k \in ChildrenOf(p) :
              tasks[k].wsId # <<>> =>
                  tasks[k].wsId =
                      Append(tasks[p].wsId,
                             Cardinality(EarlierChildren(p, k)))

\* The judge of the root has decomposed twice: the one callback of the
\* second visit has entered adjudicate, with index 0 in its visit and one
\* callback of the first visit before it.
ChildIndexContinuationWitness ==
    \E k \in Tasks :
        /\ tasks[k].parent = 1
        /\ tasks[k].idx = 0
        /\ Len(tasks[1].oldQs) = 1
        /\ tasks[k].wsId = <<"root", 1>>

\* The writes to path+'.answer' in a projection log.
AnswerWrites(dsw, path) ==
    {i \in DOMAIN dsw : dsw[i].path = path /\ dsw[i].field = "answer"}

\* C23: workspace resolved once.  The projection holds at most one write to
\* the answer of a path.  A step that writes it is the step of an
\* adjudication of that path whose judge has answered ChoseHonest, and the
\* value is the expert answer the choice names.  A step that logs a judge
\* allocation request or a judge interactCall for a path finds no answer
\* written for it.
ResolvedOnce ==
    [][ /\ \A i \in DOMAIN dswLog' :
              dswLog'[i].field = "answer" =>
                  AnswerWrites(dswLog', dswLog'[i].path) = {i}
        /\ \A i \in (Len(dswLog) + 1)..Len(dswLog') :
              dswLog'[i].field = "answer" =>
                  \E t \in Tasks :
                      /\ tasks[t].wsId = dswLog'[i].path
                      /\ tasks[t].pc = "answer"
                      /\ tasks'[t].pc = "done"
                      /\ tasks[t].r.type = "ChoseHonest"
                      /\ log[tasks[t].call + 1].user = tasks[t].u
                      /\ \E p \in DOMAIN log :
                            /\ log[p].type = "interactResponse"
                            /\ log[p].logIndex = tasks[t].call
                            /\ log[p].response = tasks[t].r
                      /\ dswLog'[i].value =
                            IF tasks[t].r.choice THEN tasks[t].ha
                            ELSE tasks[t].ma
        /\ \A i \in (Len(log) + 1)..Len(log') :
              /\ IsJudgeRequest(log'[i]) =>
                    AnswerWrites(dswLog', log'[i].message.hint.workspace) = {}
              /\ IsJudgeCall(log'[i]) =>
                    \E t \in DOMAIN tasks' :
                        /\ tasks'[t].pc = "judge"
                        /\ tasks'[t].call = i - 1
                        /\ AnswerWrites(dswLog', tasks'[t].wsId) = {}
      ]_vars

\* start has resolved: the answer of a child workspace was written, the
\* judge of the root was asked again after it, and the answer of the root
\* was written.
ResolvedOnceWitness ==
    /\ tasks[1].pc = "done"
    /\ AnswerWrites(dswLog, <<"root">>) # {}
    /\ AnswerWrites(dswLog, <<"root", 0>>) # {}

\* The positions of the allocation requests of a role, and of the responses
\* to them.
RoleRequests(role) ==
    LET Test(i) == /\ log[i].type = "sendScheduler"
                   /\ ~log[i].async
                   /\ log[i].message.type = "AllocUser"
                   /\ log[i].message.hint.role = role
    IN  SelectSeq(LogPositions, Test)

RoleAllocations(role) ==
    LET Test(i) ==
            /\ log[i].type = "sendSchedulerResponse"
            /\ log[log[i].logIndex + 1].message.type = "AllocUser"
            /\ log[log[i].logIndex + 1].message.hint.role = role
    IN  SelectSeq(LogPositions, Test)

\* The experts are allocated at most once each, before every judge, and
\* every expert interaction goes to them; a malicious interactCall comes
\* after an Answer to an honest interactCall for the same question and
\* carries that answer.
ExpertsReused ==
    LET honestReqs == RoleRequests("honestExpertRole")
        maliciousReqs == RoleRequests("maliciousExpertRole")
        judgeReqs == RoleRequests("adjudicatorRole")
        honest == RoleAllocations("honestExpertRole")
        malicious == RoleAllocations("maliciousExpertRole")
    IN  /\ Len(honestReqs) <= 1
        /\ Len(maliciousReqs) <= 1
        /\ judgeReqs # <<>> =>
              /\ Len(honest) = 1 /\ honest[1] < judgeReqs[1]
              /\ Len(malicious) = 1 /\ malicious[1] < judgeReqs[1]
              /\ honestReqs[1] < maliciousReqs[1]
        /\ \A p \in DOMAIN log :
              log[p].type = "interactCall" =>
                  /\ log[p].template = "honest_template" =>
                        /\ Len(honest) = 1 /\ honest[1] < p
                        /\ log[p].user = log[honest[1]].response
                  /\ log[p].template = "malicious_template" =>
                        /\ Len(malicious) = 1 /\ malicious[1] < p
                        /\ log[p].user = log[malicious[1]].response
                        /\ \E r \in 1..(p - 1) :
                              /\ log[r].type = "interactResponse"
                              /\ log[log[r].logIndex + 1].template
                                     = "honest_template"
                              /\ log[log[r].logIndex + 1].data.question
                                     = log[p].data.question
                              /\ log[r].response.type = "Answer"
                              /\ log[r].response.answer
                                     = log[p].data.honest_answer

\* start has returned or thrown.
StartEnded == tasks[1].pc \in {"done", "failed"}

\* C24 as stated: experts are allocated once and reused, and in any run,
\* once start has ended, exactly one honest and exactly one malicious
\* participant have been allocated.
ExpertsExactlyOnce ==
    /\ ExpertsReused
    /\ StartEnded =>
          /\ Len(RoleAllocations("honestExpertRole")) = 1
          /\ Len(RoleAllocations("maliciousExpertRole")) = 1

\* C24, amended: in any run at most one honest and at most one malicious
\* participant are allocated, and exactly one of each in a run that reaches
\* its first adjudication, both in start before it; every honest-template
\* interaction targets the honest participant and every malicious-template
\* interaction the malicious one; during adjudication only judges are
\* requested; each malicious request comes after the honest answer to the
\* same question and carries it.
ExpertsAllocatedOnce ==
    /\ ExpertsReused
    /\ (StartEnded /\ RoleRequests("adjudicatorRole") = <<>>) =>
          /\ tasks[1].pc = "failed"
          /\ Len(RoleAllocations("maliciousExpertRole")) = 1 =>
                tasks[1].error.type # "error"

\* A callback of a fan-out has asked the malicious expert its subquestion,
\* after the honest expert of start had answered it.
ExpertsAllocatedOnceWitness ==
    /\ Len(RoleRequests("adjudicatorRole")) >= 1
    /\ \E p \in DOMAIN log :
          /\ log[p].type = "interactCall"
          /\ log[p].template = "malicious_template"
          /\ log[p].data.question = "sub1"
          /\ log[p].data.honest_answer = <<"honest", "sub1">>
          /\ log[p].user = 1

\* The ids of the participants a state of the run knows: the experts of
\* start, the judges of the scheduler, and the agents that allocation
\* requests in flight have been handed.
Participants(tks, js) ==
    ({tks[1].ho, tks[1].mo} \cup {js[k] : k \in DOMAIN js}
        \cup {tks[t].agent : t \in DOMAIN tks}) \ {None}

\* C25: participant identity.  A step asks the agent source at most once.
\* While userCount < limit the request is handed the id userCount, which
\* then grows by one; otherwise the request fails and userCount stays, as
\* it does in a step that does not ask.  So the ids handed out are 0, 1,
\* 2, ... in request order, the participants of the run are exactly the
\* ids below userCount, never more than limit, and the honest expert, the
\* malicious expert and the judges are pairwise different.
ParticipantIdentity ==
    [][ LET asked == {i \in (Len(log) + 1)..Len(log') :
                         log'[i].type = "allocAgent"}
        IN  /\ Cardinality(asked) <= 1
            /\ asked = {} => userCount' = userCount
            /\ \A i \in asked :
                  \E t \in DOMAIN tasks' :
                      /\ tasks'[t].call = i - 2
                      /\ IF userCount < limit
                         THEN /\ tasks'[t].agent = userCount
                              /\ userCount' = userCount + 1
                         ELSE /\ tasks'[t].agent = None
                              /\ userCount' = userCount
            /\ userCount' <= limit
            /\ Participants(tasks', judges') = 0..(userCount' - 1)
            /\ Cardinality({judges'[k] : k \in DOMAIN judges'})
                   = Len(judges')
            /\ \A k \in DOMAIN judges' :
                  judges'[k] \notin {tasks'[1].ho, tasks'[1].mo}
            /\ tasks'[1].ho # None => tasks'[1].ho # tasks'[1].mo
      ]_vars

\* The agent source has handed out its last id to a judge, and a later
\* judge allocation has asked it and failed.
ParticipantIdentityWitness ==
    /\ limit >= 3
    /\ userCount = limit
    /\ Len(judges) = limit - 2
    /\ \E t \in Tasks : tasks[t].pc = "allocJudge" /\ tasks[t].agent = None

\* The judge interactCalls of the log that have no interactResponse yet.
OpenJudgeCalls ==
    {p \in DOMAIN log :
        /\ IsJudgeCall(log[p])
        /\ ~\E r \in DOMAIN log :
              log[r].type = "interactResponse" /\ log[r].logIndex = p - 1}

\* C26: judge mutual exclusion.  In every state no two judge interactCalls
\* without a response are addressed to the same judge.
JudgeMutualExclusion ==
    \A p, q \in OpenJudgeCalls : log[p].user = log[q].user => p = q

\* C30: availability implies history.  A judge marked available has a
\* defined, non-empty work history; a judge without a history is not
\* available, so the weight computation of the catch block never reads an
\* undefined history; and the fresh judge an allocation has just returned
\* has no availability entry.
AvailabilityImpliesHistory ==
    /\ \A id \in DOMAIN judgeAvailable :
           judgeAvailable[id] =>
               id \in DOMAIN judgeWorkedOn /\ Len(judgeWorkedOn[id]) > 0
    /\ \A k \in DOMAIN judges :
           /\ judges[k] \notin DOMAIN judgeWorkedOn => ~IsAvailable(judges[k])
           /\ ~WeightThrows(judges[k])
    /\ \A t \in DOMAIN tasks :
           tasks[t].pc = "returned" /\ tasks[t].agent # None =>
               tasks[t].u \notin DOMAIN judgeAvailable

AvailabilityImpliesHistoryWitness ==
    \E t \in DOMAIN tasks :
        /\ tasks[t].pc = "returned"
        /\ tasks[t].agent = None
        /\ ~tasks[t].waited
        /\ IsAvailable(tasks[t].u)
        /\ Includes(judgeWorkedOn[tasks[t].u], <<"root">>)
        /\ \E k \in DOMAIN judges : judges[k] \notin DOMAIN judgeAvailable

\* C28: failure stops the run.  Once start has failed, no step appends an
\* entry to the log or a write to the projection.
FailureStopsRun ==
    [][ tasks[1].pc = "failed" => (log' = log /\ dswLog' = dswLog) ]_vars

(***************************************************************************)
(* LiveSpec: the run of Spec in which every continuation that can run      *)
(* does run and every pending interaction is answered.                     *)
(***************************************************************************)

LiveSpec == Init /\ [][Next]_vars /\ WF_vars(Next)

\* The run was cut by the bound on the log.
LogFull == Len(log) >= MaxLog

\* start has failed with a response thrown as a protocol violation.
ViolationFailed ==
    /\ tasks[1].pc = "failed"
    /\ tasks[1].error.type \in {"Answer", "ChoseHonest", "Questions"}

\* The judge allocation of task t waits on the chain.
Blocked(t) == t \in Tasks /\ tasks[t].pc = "blocked"

SomeBlocked == \E t \in Tasks : Blocked(t)

\* How far a task has got since the last entry it appended to the log.
PcRank(pc) ==
    CASE pc \in {"blocked", "returned", "join", "answer"} -> 1
      [] pc = "done" -> 2
      [] pc = "failed" -> 3
      [] OTHER -> 0

RECURSIVE RankSum(_)
RankSum(k) == IF k = 0 THEN 0 ELSE PcRank(tasks[k].pc) + RankSum(k - 1)

\* A measure every step of the run increases; the bound on the log bounds
\* it, as a bound on the number of Decompose responses bounds the log.
Progress == 4 * Len(log) + RankSum(Len(tasks))

\* No step of the run is possible.
Stuck == ~ENABLED Next

RecordedResponses(lg) ==
    SelectSeq(lg, LAMBDA e : e.type = "interactResponse")

\* C8: replay sequencing.  With n interactResponse entries in the supplied
\* log, the k-th call of the replay requester, k <= n, returns the response
\* of the k-th of them and does not call the live requester; the cursor
\* never moves backwards; every later call is forwarded to the live
\* requester with the arguments it was made with, and no call after a
\* forwarded one is served from the log.
ReplaySequencing ==
    replaying =>
        LET recorded == RecordedResponses(supplied)
        IN  /\ replayI <= Len(supplied)
            /\ reqCalls # <<>> => reqCalls[Len(reqCalls)].to = replayI
            /\ \A k \in 1..Len(reqCalls) :
                  LET c == reqCalls[k]
                  IN  /\ c.from <= c.to
                      /\ c.from = IF k = 1 THEN 0 ELSE reqCalls[k - 1].to
                      /\ k <= Len(recorded) =>
                            /\ c.served
                            /\ c.response = recorded[k].response
                            /\ c.forwarded = NoResp
                      /\ k > Len(recorded) =>
                            /\ ~c.served
                            /\ c.forwarded = c.args
                      /\ (k > 1 /\ ~reqCalls[k - 1].served) => ~c.served

\* Two calls were served from the log, with different responses, and a
\* later one was forwarded.
ReplaySequencingWitness ==
    /\ replaying
    /\ \E k \in 1..Len(reqCalls) :
          /\ k > 2
          /\ reqCalls[k - 2].served /\ reqCalls[k - 1].served
          /\ reqCalls[k - 2].response # reqCalls[k - 1].response
          /\ ~reqCalls[k].served

\* C9 as stated: every interaction the replay serves from the prefix gets
\* the response that the interaction with the same participant, template
\* and payload got in the original run.
ReplayFidelity ==
    replaying =>
        \A k \in 1..Len(reqCalls) :
            reqCalls[k].served =>
                \E p \in 1..Len(supplied) :
                    /\ supplied[p].type = "interactCall"
                    /\ supplied[p].user = reqCalls[k].args.user
                    /\ supplied[p].template = reqCalls[k].args.template
                    /\ supplied[p].data = reqCalls[k].args.data
                    /\ \E q \in ResponsesTo(supplied, p - 1) :
                          supplied[q].response = reqCalls[k].response

====
